---- MODULE Spec2Model ----
(***************************************************************************)
(* Model of mobile_agent.py, the Streamlit racing agent.  One execution of *)
(* the script (a "run") is triggered by every interaction with the page;   *)
(* the model follows the script statement by statement from the guard of   *)
(* the agent logic to the end of the script.  String literals are the      *)
(* script's with the emoji, the bullet and the markdown asterisks left     *)
(* out (the module is ASCII).                                              *)
(***************************************************************************)
EXTENDS Naturals, Sequences, FiniteSets, TLC

VARIABLES
    secrets,      \* st.secrets: whether GOOGLE_API_KEY is set, and its value
    start_btn,    \* st.button("Analyze Race")
    api_key,      \* sidebar: the secret, or the text typed in the password field
    meeting,      \* st.text_input("Meeting")
    race_time,    \* st.time_input("Time")
    race_date,    \* st.date_input("Date")
    bet_type,     \* st.radio("Mode")
    pc,           \* position of the run in the script
    configured,   \* the keys genai.configure was called with in this run
    model,        \* the GenerativeModel of this run (system instruction), "" = none
    calls,        \* the prompts passed to model.generate_content in this run
    response,     \* the response object returned by generate_content
    data,         \* the value bound to `data` by json.loads
    status,       \* state of the st.status container ("none" before it exists)
    updates,      \* the states the status container was updated to, in order
    out,          \* the elements rendered on the page in this run, in order
    e             \* the message of the exception raised in this run ("" = none)

vars == <<secrets, start_btn, api_key, meeting, race_time, race_date, bet_type,
          pc, configured, model, calls, response, data, status, updates, out, e>>

inputs == <<secrets, start_btn, api_key, meeting, race_time, race_date, bet_type>>

-----------------------------------------------------------------------------
(* Bounds of the model.                                                    *)

\* A JSON object of the response lacks at most this many of the required keys
\* (the empty object is always among the responses).
MaxMissing == 2

\* Truncated responses are the first 0..MaxTruncLen tokens of a full response.
MaxTruncLen == 8

-----------------------------------------------------------------------------
(* Python values: strings, None, the empty list, and dicts of scalars.     *)

PyStr(s) == [t |-> "str", s |-> s, d |-> <<>>]
PyNone == [t |-> "none", s |-> "", d |-> <<>>]
PyList == [t |-> "list", s |-> "", d |-> <<>>]
PyDict(f) == [t |-> "dict", s |-> "", d |-> f]

\* The value of `data` before json.loads has bound it.
Unbound == [t |-> "unbound", s |-> "", d |-> <<>>]

\* bool(v): the empty string, None and empty containers are false.
Truthy(v) ==
    CASE v.t = "str" -> v.s # ""
      [] v.t = "none" -> FALSE
      [] v.t = "list" -> FALSE
      [] v.t = "dict" -> DOMAIN v.d # {}
      [] OTHER -> FALSE

\* f"{v}" for a scalar.
Format(v) == IF v.t = "none" THEN "None" ELSE v.s

\* type(v).__name__
TypeName(v) ==
    CASE v.t = "str" -> "str"
      [] v.t = "none" -> "NoneType"
      [] v.t = "list" -> "list"
      [] OTHER -> "dict"

-----------------------------------------------------------------------------
(* JSON text, as a sequence of tokens, and json.loads.                     *)

Tok(t, v) == [t |-> t, v |-> v]
LBrace == Tok("{", "")
RBrace == Tok("}", "")
LBrack == Tok("[", "")
RBrack == Tok("]", "")
Colon == Tok(":", "")
Comma == Tok(",", "")
NullTok == Tok("null", "")
StrTok(s) == Tok("str", s)
\* Text that is no JSON token (prose, markdown fences).
WordTok(s) == Tok("word", s)

IsScalarTok(k) == k.t \in {"str", "null"}
ScalarOf(k) == IF k.t = "str" THEN PyStr(k.v) ELSE PyNone

Put(f, k, v) == [x \in DOMAIN f \cup {k} |-> IF x = k THEN v ELSE f[x]]

EmptyDict == [x \in {} |-> PyNone]

\* The members of an object from token i on: "key" : scalar, then either
\* a comma and more members, or the closing brace as the last token.
RECURSIVE ParseMembers(_, _, _)
ParseMembers(toks, i, acc) ==
    IF i + 3 > Len(toks) THEN [ok |-> FALSE, val |-> Unbound]
    ELSE IF ~(toks[i].t = "str" /\ toks[i + 1] = Colon /\ IsScalarTok(toks[i + 2]))
        THEN [ok |-> FALSE, val |-> Unbound]
    ELSE LET acc2 == Put(acc, toks[i].v, ScalarOf(toks[i + 2]))
         IN  IF toks[i + 3] = RBrace
                 THEN [ok |-> i + 3 = Len(toks), val |-> PyDict(acc2)]
             ELSE IF toks[i + 3] = Comma
                 THEN ParseMembers(toks, i + 4, acc2)
             ELSE [ok |-> FALSE, val |-> Unbound]

\* json.loads(text): ok = FALSE stands for JSONDecodeError.
json_loads(toks) ==
    IF Len(toks) = 0 THEN [ok |-> FALSE, val |-> Unbound]
    ELSE IF Len(toks) = 1 /\ IsScalarTok(toks[1])
        THEN [ok |-> TRUE, val |-> ScalarOf(toks[1])]
    ELSE IF toks = <<LBrack, RBrack>> THEN [ok |-> TRUE, val |-> PyList]
    ELSE IF toks = <<LBrace, RBrace>> THEN [ok |-> TRUE, val |-> PyDict(EmptyDict)]
    ELSE IF toks[1] = LBrace THEN ParseMembers(toks, 2, EmptyDict)
    ELSE [ok |-> FALSE, val |-> Unbound]

-----------------------------------------------------------------------------
(* The responses the remote model can give.                                *)

\* The keys the system instruction asks for, in the order it lists them.
KeyOrder == <<"conditions", "selection", "selection_odds", "danger",
              "danger_odds", "jockey_alert", "logic">>

\* The keys the display reads with data[...].
RequiredKeys == {"conditions", "selection", "selection_odds", "danger",
                 "danger_odds", "logic"}

SampleValue ==
    [k \in RequiredKeys |->
        CASE k = "conditions" -> "Soft, 2m4f"
          [] k = "selection" -> "Storm King"
          [] k = "selection_odds" -> "4/1"
          [] k = "danger" -> "Bay Breeze"
          [] k = "danger_odds" -> "7/2"
          [] OTHER -> "Soft ground favors stamina."]

\* The values of jockey_alert when the key is present.
AlertValues == {PyNone, PyStr("null"), PyStr(""), PyStr("J. Smith booked")}

KeySets == {K \in SUBSET RequiredKeys : Cardinality(RequiredKeys \ K) <= MaxMissing}

\* The JSON objects of the model: dicts over a set of required keys, with or
\* without jockey_alert.
Objects ==
    {[k \in K |-> PyStr(SampleValue[k])] : K \in KeySets}
    \cup {Put([k \in K |-> PyStr(SampleValue[k])], "jockey_alert", a) :
            K \in KeySets, a \in AlertValues}

ValueTok(v) == IF v.t = "str" THEN StrTok(v.s) ELSE NullTok

\* json.dumps of a dict of scalars, keys in KeyOrder from position i on.
RECURSIVE Members(_, _, _)
Members(o, i, first) ==
    IF i > Len(KeyOrder) THEN <<>>
    ELSE IF KeyOrder[i] \notin DOMAIN o THEN Members(o, i + 1, first)
    ELSE (IF first THEN <<>> ELSE <<Comma>>)
         \o <<StrTok(KeyOrder[i]), Colon, ValueTok(o[KeyOrder[i]])>>
         \o Members(o, i + 1, FALSE)

Serialize(o) == <<LBrace>> \o Members(o, 1, TRUE) \o <<RBrace>>

TextOf == [o \in Objects |-> Serialize(o)]

FullObject ==
    Put([k \in RequiredKeys |-> PyStr(SampleValue[k])], "jockey_alert",
        PyStr("J. Smith booked"))

Min(a, b) == IF a < b THEN a ELSE b

ObjectTexts == {TextOf[o] : o \in Objects}

TruncatedTexts ==
    {SubSeq(TextOf[FullObject], 1, n) :
        n \in 0..Min(MaxTruncLen, Len(TextOf[FullObject]) - 1)}

OtherTexts ==
    {<<WordTok("Sorry, I cannot help with that.")>>,
     <<LBrace, RBrace>>,
     <<LBrack, RBrack>>,
     <<NullTok>>,
     <<StrTok("Storm King")>>,
     TextOf[FullObject] \o <<WordTok("Hope this helps!")>>}

Texts == ObjectTexts \cup TruncatedTexts \cup OtherTexts

\* A response either carries text, or has no candidate so that reading
\* response.text raises.
Response(hasText, text) == [has_text |-> hasText, text |-> text]
NoResponse == [has_text |-> FALSE, text |-> <<WordTok("no response")>>]
BlockedResponse == Response(FALSE, <<>>)
Responses == {Response(TRUE, t) : t \in Texts} \cup {BlockedResponse}

\* Messages of the exceptions the client library raises.
RemoteErrors == {"503 Service Unavailable", "API key not valid"}
BlockedError == "response.text requires a valid candidate"
DecodeError == "Expecting value"

-----------------------------------------------------------------------------
(* The page: widgets and rendered elements.                                *)

\* st.secrets: GOOGLE_API_KEY absent, set to the empty string, or set.
SecretStores == {[has |-> FALSE, key |-> ""], [has |-> TRUE, key |-> ""],
                 [has |-> TRUE, key |-> "sk-secret"]}
TypedKeys == {"", "sk-typed"}
Meetings == {"", "Newbury", "Ascot"}
Times == {"15:35:00", "14:10:00"}
Dates == {"2024-06-01", "2024-06-02"}
Modes == {"Win", "Each-Way"}

Elem(kind, label, text, delta) ==
    [kind |-> kind, label |-> label, text |-> text, delta |-> delta]

\* Sidebar: the key comes from the secrets when they hold one, otherwise
\* from the password field.
SidebarKey(store, typed) == IF store.has THEN store.key ELSE typed

\* What the script has rendered when it reaches the agent logic.
PageTop(store) ==
    IF store.has
        THEN <<Elem("success", "", "API Key loaded from Cloud Secrets", "")>>
        ELSE <<>>

WarningElem == Elem("warning", "", "Please enter your API Key.", "")
ProgressElem == Elem("write", "", "Finding racecard & checking going...", "")
AlertElem(v) == Elem("error", "", "JOCKEY ALERT: " \o Format(v), "")
CaptionElemNoMeeting(m, v) == Elem("caption", "", Format(v), "")
CaptionElem(m, v) == Elem("caption", "", m \o " - " \o Format(v), "")
SelectionElem(v, odds) == Elem("metric", "THE SELECTION", Format(v), Format(odds))
DangerElem(v, odds) == Elem("metric", "THE DANGER", Format(v), Format(odds))
DividerElem == Elem("divider", "", "", "")
SubheaderElem == Elem("subheader", "", "The Logic", "")
InfoElem(v) == Elem("info", "", Format(v), "")
OopsElem(msg) == Elem("error", "", "Oops: " \o msg, "")

SystemInstruction(m, t, d) ==
    "Search for the racecard: " \o m \o " " \o t \o " on " \o d \o "."

Prompt(t, m, d, b) ==
    "Analyze the " \o t \o " race at " \o m \o " (" \o d \o ") for a " \o b \o " bet."

\* str(KeyError(k)) and the message of calling .get on a non-dict.
KeyErrorMsg(k) == "'" \o k \o "'"
AttributeErrorMsg(v) == "'" \o TypeName(v) \o "' object has no attribute 'get'"

-----------------------------------------------------------------------------
(* Initial state: the page has been loaded, the script has run once with   *)
(* the widgets' default values.                                            *)

Init ==
    /\ secrets \in SecretStores
    /\ start_btn = FALSE
    /\ api_key = SidebarKey(secrets, "")
    /\ meeting = ""
    /\ race_time = "15:35:00"
    /\ race_date = "2024-06-01"
    /\ bet_type = "Win"
    /\ pc = "done"
    /\ configured = <<>>
    /\ model = ""
    /\ calls = <<>>
    /\ response = NoResponse
    /\ data = Unbound
    /\ status = "none"
    /\ updates = <<>>
    /\ out = PageTop(secrets)
    /\ e = ""

\* An interaction reruns the script from the top: nothing of the previous
\* run's output or objects is kept.
StartRun ==
    /\ pc \in {"done", "crashed"}
    /\ pc' = "guard"
    /\ configured' = <<>>
    /\ model' = ""
    /\ calls' = <<>>
    /\ response' = NoResponse
    /\ data' = Unbound
    /\ status' = "none"
    /\ updates' = <<>>
    /\ out' = PageTop(secrets)
    /\ e' = ""
    /\ UNCHANGED secrets

EditApiKey ==
    /\ ~secrets.has
    /\ \E k \in TypedKeys \ {api_key} : api_key' = k
    /\ start_btn' = FALSE
    /\ StartRun
    /\ UNCHANGED <<meeting, race_time, race_date, bet_type>>

EditMeeting ==
    /\ \E m \in Meetings \ {meeting} : meeting' = m
    /\ start_btn' = FALSE
    /\ StartRun
    /\ UNCHANGED <<api_key, race_time, race_date, bet_type>>

EditTime ==
    /\ \E t \in Times \ {race_time} : race_time' = t
    /\ start_btn' = FALSE
    /\ StartRun
    /\ UNCHANGED <<api_key, meeting, race_date, bet_type>>

EditDate ==
    /\ \E d \in Dates \ {race_date} : race_date' = d
    /\ start_btn' = FALSE
    /\ StartRun
    /\ UNCHANGED <<api_key, meeting, race_time, bet_type>>

EditMode ==
    /\ \E b \in Modes \ {bet_type} : bet_type' = b
    /\ start_btn' = FALSE
    /\ StartRun
    /\ UNCHANGED <<api_key, meeting, race_time, race_date>>

ClickAnalyze ==
    /\ start_btn' = TRUE
    /\ StartRun
    /\ UNCHANGED <<api_key, meeting, race_time, race_date, bet_type>>

-----------------------------------------------------------------------------
(* The agent logic.                                                        *)

\* if start_btn and api_key and meeting:
AcceptedAnyKey == start_btn /\ meeting # ""
AcceptedAnyMeeting == start_btn /\ api_key # ""
Accepted == start_btn /\ api_key # "" /\ meeting # ""

\* elif start_btn and not api_key:
MissingKey == start_btn /\ api_key = ""

Guard ==
    /\ pc = "guard"
    /\ IF Accepted
           THEN pc' = "configure" /\ out' = out
       ELSE IF MissingKey
           THEN pc' = "done" /\ out' = Append(out, WarningElem)
       ELSE pc' = "done" /\ out' = out
    /\ UNCHANGED <<inputs, configured, model, calls, response, data, status,
                   updates, e>>

\* The order of the statements that follow one another without a branch.
SuccAlertAfterCaption(p) ==
    CASE p = "configure" -> "status"
      [] p = "status" -> "model"
      [] p = "model" -> "write"
      [] p = "write" -> "generate"
      [] p = "generate" -> "loads"
      [] p = "loads" -> "complete"
      [] p = "complete" -> "caption"
      [] p = "caption" -> "alert"
      [] p = "alert" -> "metric_selection"
      [] p = "metric_selection" -> "metric_danger"
      [] p = "metric_danger" -> "divider"
      [] p = "divider" -> "subheader"
      [] p = "subheader" -> "info"
      [] p = "info" -> "exit"
      [] p = "except_update" -> "except_error"
      [] p = "except_error" -> "exit"
      [] p = "exit" -> "done"
      [] OTHER -> "crashed"

Succ(p) ==
    CASE p = "configure" -> "status"
      [] p = "status" -> "model"
      [] p = "model" -> "write"
      [] p = "write" -> "generate"
      [] p = "generate" -> "loads"
      [] p = "loads" -> "complete"
      [] p = "complete" -> "alert"
      [] p = "alert" -> "caption"
      [] p = "caption" -> "metric_selection"
      [] p = "metric_selection" -> "metric_danger"
      [] p = "metric_danger" -> "divider"
      [] p = "divider" -> "subheader"
      [] p = "subheader" -> "info"
      [] p = "info" -> "exit"
      [] p = "except_update" -> "except_error"
      [] p = "except_error" -> "exit"
      [] p = "exit" -> "done"
      [] OTHER -> "crashed"

\* An exception inside the try block is bound to e and handled.
Caught(msg) == pc' = "except_update" /\ e' = msg

\* genai.configure(api_key=api_key), before the status block and the try:
\* an exception it raises is not handled by the script.
Configure ==
    /\ pc = "configure"
    /\ \/ /\ configured' = Append(configured, api_key)
          /\ pc' = Succ(pc)
          /\ e' = e
       \/ /\ \E msg \in RemoteErrors : e' = msg
          /\ pc' = "crashed"
          /\ configured' = configured
    /\ UNCHANGED <<inputs, model, calls, response, data, status, updates, out>>

\* with st.status(...) as status
EnterStatus ==
    /\ pc = "status"
    /\ status' = "running"
    /\ pc' = Succ(pc)
    /\ UNCHANGED <<inputs, configured, model, calls, response, data, updates,
                   out, e>>

\* GenerationConfig(...) and GenerativeModel(...), inside the status block
\* and before the try: an exception leaves the block unhandled.
ConstructModel ==
    /\ pc = "model"
    /\ \/ /\ model' = SystemInstruction(meeting, race_time, race_date)
          /\ pc' = Succ(pc)
          /\ e' = e
       \/ /\ \E msg \in RemoteErrors : e' = msg
          /\ pc' = "exit_raise"
          /\ model' = model
    /\ UNCHANGED <<inputs, configured, calls, response, data, status, updates,
                   out>>

\* status.write(...)
StatusWrite ==
    /\ pc = "write"
    /\ out' = Append(out, ProgressElem)
    /\ pc' = Succ(pc)
    /\ UNCHANGED <<inputs, configured, model, calls, response, data, status,
                   updates, e>>

\* response = model.generate_content(prompt)
GenerateContent ==
    /\ pc = "generate"
    /\ calls' = Append(calls, Prompt(race_time, meeting, race_date, bet_type))
    /\ \/ /\ \E r \in Responses : response' = r
          /\ pc' = Succ(pc)
          /\ e' = e
       \/ /\ \E msg \in RemoteErrors : Caught(msg)
          /\ response' = response
    /\ UNCHANGED <<inputs, configured, model, data, status, updates, out>>

\* data = json.loads(response.text)
JsonLoads ==
    /\ pc = "loads"
    /\ IF ~response.has_text
           THEN Caught(BlockedError) /\ data' = data
       ELSE LET parsed == json_loads(response.text)
            IN  IF parsed.ok
                    THEN data' = parsed.val /\ pc' = Succ(pc) /\ e' = e
                    ELSE Caught(DecodeError) /\ data' = data
    /\ UNCHANGED <<inputs, configured, model, calls, response, status, updates,
                   out>>

\* status.update(label="Analysis Complete", state="complete", expanded=False)
StatusComplete ==
    /\ pc = "complete"
    /\ status' = "complete"
    /\ updates' = Append(updates, "complete")
    /\ pc' = Succ(pc)
    /\ UNCHANGED <<inputs, configured, model, calls, response, data, out, e>>

\* data.get("jockey_alert") and data["jockey_alert"] != "null"
ShowAlertAnyString(d) ==
    IF "jockey_alert" \in DOMAIN d THEN Truthy(d["jockey_alert"]) ELSE FALSE

ShowAlert(d) ==
    IF "jockey_alert" \in DOMAIN d
        THEN Truthy(d["jockey_alert"]) /\ d["jockey_alert"] # PyStr("null")
        ELSE FALSE

\* 1. Jockey Alert Banner (if exists)
JockeyAlert ==
    /\ pc = "alert"
    /\ IF data.t # "dict"
           THEN Caught(AttributeErrorMsg(data)) /\ out' = out
       ELSE /\ out' = IF ShowAlert(data.d)
                          THEN Append(out, AlertElem(data.d["jockey_alert"]))
                          ELSE out
            /\ pc' = Succ(pc)
            /\ e' = e
    /\ UNCHANGED <<inputs, configured, model, calls, response, data, status,
                   updates>>

\* 2. The Conditions
Caption ==
    /\ pc = "caption"
    /\ IF "conditions" \notin DOMAIN data.d
           THEN Caught(KeyErrorMsg("conditions")) /\ out' = out
       ELSE /\ out' = Append(out, CaptionElem(meeting, data.d["conditions"]))
            /\ pc' = Succ(pc)
            /\ e' = e
    /\ UNCHANGED <<inputs, configured, model, calls, response, data, status,
                   updates>>

\* The first of the keys ks, in order, that d lacks ("" if it has them all).
FirstMissing(d, ks) ==
    IF \E i \in 1..Len(ks) : ks[i] \notin DOMAIN d
        THEN ks[CHOOSE i \in 1..Len(ks) :
                    /\ ks[i] \notin DOMAIN d
                    /\ \A j \in 1..(i - 1) : ks[j] \in DOMAIN d]
        ELSE ""

\* 3. Big Stats Cards: st.metric for the selection
MetricSelection ==
    /\ pc = "metric_selection"
    /\ LET missing == FirstMissing(data.d, <<"selection", "selection_odds">>)
       IN  IF missing # ""
               THEN Caught(KeyErrorMsg(missing)) /\ out' = out
           ELSE /\ out' = Append(out, SelectionElem(data.d["selection"],
                                                    data.d["selection_odds"]))
                /\ pc' = Succ(pc)
                /\ e' = e
    /\ UNCHANGED <<inputs, configured, model, calls, response, data, status,
                   updates>>

\* st.metric for the danger
MetricDanger ==
    /\ pc = "metric_danger"
    /\ LET missing == FirstMissing(data.d, <<"danger", "danger_odds">>)
       IN  IF missing # ""
               THEN Caught(KeyErrorMsg(missing)) /\ out' = out
           ELSE /\ out' = Append(out, DangerElem(data.d["danger"],
                                                 data.d["danger_odds"]))
                /\ pc' = Succ(pc)
                /\ e' = e
    /\ UNCHANGED <<inputs, configured, model, calls, response, data, status,
                   updates>>

\* 4. The Logic Section: st.divider()
Divider ==
    /\ pc = "divider"
    /\ out' = Append(out, DividerElem)
    /\ pc' = Succ(pc)
    /\ UNCHANGED <<inputs, configured, model, calls, response, data, status,
                   updates, e>>

\* st.subheader("The Logic")
Subheader ==
    /\ pc = "subheader"
    /\ out' = Append(out, SubheaderElem)
    /\ pc' = Succ(pc)
    /\ UNCHANGED <<inputs, configured, model, calls, response, data, status,
                   updates, e>>

\* st.info(data['logic'])
Info ==
    /\ pc = "info"
    /\ IF "logic" \notin DOMAIN data.d
           THEN Caught(KeyErrorMsg("logic")) /\ out' = out
       ELSE /\ out' = Append(out, InfoElem(data.d["logic"]))
            /\ pc' = Succ(pc)
            /\ e' = e
    /\ UNCHANGED <<inputs, configured, model, calls, response, data, status,
                   updates>>

\* except Exception as e: status.update(label="Error", state="error")
ExceptUpdate ==
    /\ pc = "except_update"
    /\ status' = "error"
    /\ updates' = Append(updates, "error")
    /\ pc' = Succ(pc)
    /\ UNCHANGED <<inputs, configured, model, calls, response, data, out, e>>

\* st.error(f"Oops: {e}")
ExceptErrorRetry ==
    /\ pc = "except_error"
    /\ out' = Append(out, OopsElem(e))
    /\ pc' = IF Len(calls) < 2 THEN "generate" ELSE Succ(pc)
    /\ UNCHANGED <<inputs, configured, model, calls, response, data, status,
                   updates, e>>

ExceptError ==
    /\ pc = "except_error"
    /\ out' = Append(out, OopsElem(e))
    /\ pc' = Succ(pc)
    /\ UNCHANGED <<inputs, configured, model, calls, response, data, status,
                   updates, e>>

\* Leaving the status block.  The container is only touched when it is still
\* running, which the script's own updates exclude on the normal path; on an
\* exception the installed streamlit decides between "complete" and "error".
ExitStatus ==
    /\ pc \in {"exit", "exit_raise"}
    /\ IF status # "running"
           THEN status' = status /\ updates' = updates
       ELSE IF pc = "exit"
           THEN status' = "complete" /\ updates' = Append(updates, "complete")
       ELSE \E s \in {"complete", "error"} :
                status' = s /\ updates' = Append(updates, s)
    /\ pc' = IF pc = "exit" THEN Succ(pc) ELSE "crashed"
    /\ UNCHANGED <<inputs, configured, model, calls, response, data, out, e>>

Next ==
    \/ EditApiKey
    \/ EditMeeting
    \/ EditTime
    \/ EditDate
    \/ EditMode
    \/ ClickAnalyze
    \/ Guard
    \/ Configure
    \/ EnterStatus
    \/ ConstructModel
    \/ StatusWrite
    \/ GenerateContent
    \/ JsonLoads
    \/ StatusComplete
    \/ JockeyAlert
    \/ Caption
    \/ MetricSelection
    \/ MetricDanger
    \/ Divider
    \/ Subheader
    \/ Info
    \/ ExceptUpdate
    \/ ExceptError
    \/ ExitStatus

Spec == Init /\ [][Next]_vars

-----------------------------------------------------------------------------
(* Vocabulary of the properties.                                           *)

\* The elements that make up a result: caption, the two cards, the logic
\* section.
ResultKinds == {"caption", "metric", "divider", "subheader", "info"}

\* The banner of the exception handler, as opposed to the jockey alert, which
\* is rendered with the same st.error.
IsOops(x) == x.kind = "error" /\ x = OopsElem(e)
IsAlert(x) == x.kind = "error" /\ ~IsOops(x)

Shown(kinds) == SelectSeq(out, LAMBDA x : x.kind \in kinds)
Alerts == SelectSeq(out, IsAlert)

\* The response is the JSON text of the object o.
RespondedWith(o) == response = Response(TRUE, TextOf[o])

Complete(o) == RequiredKeys \subseteq DOMAIN o

HasAlertKey(o) == "jockey_alert" \in DOMAIN o

-----------------------------------------------------------------------------
(* Properties.                                                             *)

\* C1: in a run started by the button with an empty credential, the client is
\* never configured, no model is built and no generation call is made, and
\* the finished run shows the missing-credential warning; the warning and a
\* configuration or call never occur in the same run.
C1_NoCallWithoutCredential ==
    /\ (start_btn /\ api_key = "") =>
          /\ configured = <<>>
          /\ model = ""
          /\ calls = <<>>
          /\ pc = "done" => Shown({"warning"}) = <<WarningElem>>
    /\ Shown({"warning"}) # <<>> => configured = <<>> /\ calls = <<>>

C1_Witness ==
    /\ pc = "done"
    /\ start_btn
    /\ api_key = ""
    /\ meeting # ""
    /\ bet_type = "Each-Way"
    /\ Shown({"warning"}) = <<WarningElem>>

\* C2: whenever the response text is malformed (no JSON, or JSON without all
\* the required keys), no result element and no alert banner has been
\* rendered, and the finished run is in the error outcome.
C2_MalformedNeverPartial ==
    (response.has_text /\ ~\E o \in Objects : Complete(o) /\ RespondedWith(o)) =>
        /\ Shown(ResultKinds) = <<>>
        /\ Alerts = <<>>
        /\ pc = "done" => status = "error" /\ \E i \in DOMAIN out : IsOops(out[i])

\* C3 as stated: once the run on a JSON object has ended, no alert banner is
\* shown when jockey_alert is absent, null or "null", and for every other
\* string, the empty one included, exactly the banner carrying it is shown.
C3_AlertForEveryOtherString ==
    \A o \in Objects :
        (pc = "done" /\ RespondedWith(o)) =>
            IF ~HasAlertKey(o) THEN Alerts = <<>>
            ELSE IF o["jockey_alert"] \in {PyNone, PyStr("null")} THEN Alerts = <<>>
            ELSE Alerts = <<Elem("error", "", "JOCKEY ALERT: " \o o["jockey_alert"].s, "")>>

\* C3 amended: once the run on a JSON object has ended, no alert banner is
\* shown when jockey_alert is absent, null, "null" or the empty string, and
\* for every other string exactly the banner carrying it is shown.
C3_AlertNormalization ==
    \A o \in Objects :
        (pc = "done" /\ RespondedWith(o)) =>
            IF ~HasAlertKey(o) THEN Alerts = <<>>
            ELSE IF o["jockey_alert"] \in {PyNone, PyStr("null"), PyStr("")}
                THEN Alerts = <<>>
            ELSE Alerts = <<Elem("error", "", "JOCKEY ALERT: " \o o["jockey_alert"].s, "")>>

C3_Witness ==
    /\ pc = "done"
    /\ \E o \in Objects :
          /\ RespondedWith(o)
          /\ HasAlertKey(o)
          /\ o["jockey_alert"] = PyStr("")
          /\ Alerts = <<>>
          /\ Shown({"caption"}) # <<>>

\* C4: a run never ends with an exception that the script did not handle, and
\* a finished run in which an exception was raised is in the error outcome
\* with the error banner.
C4_NoUncaughtException ==
    /\ pc # "crashed"
    /\ (pc = "done" /\ e # "") =>
          status = "error" /\ \E i \in DOMAIN out : IsOops(out[i])

\* C5: a finished run whose response is a JSON object with every required key
\* is in the success outcome, shows no error banner of the handler, and shows
\* the caption, the two cards and the logic text with the object's values.
C5_WellFormedRendersVerbatim ==
    \A o \in Objects :
        (pc = "done" /\ Complete(o) /\ RespondedWith(o)) =>
            /\ status = "complete"
            /\ updates = <<"complete">>
            /\ e = ""
            /\ \A i \in DOMAIN out : out[i].kind = "error" => IsAlert(out[i])
            /\ Shown({"caption", "metric", "info"}) =
                  <<Elem("caption", "", meeting \o " - " \o o["conditions"].s, ""),
                    Elem("metric", "THE SELECTION", o["selection"].s,
                         o["selection_odds"].s),
                    Elem("metric", "THE DANGER", o["danger"].s, o["danger_odds"].s),
                    Elem("info", "", o["logic"].s, "")>>

C5_Witness ==
    /\ pc = "done"
    /\ RespondedWith(FullObject)
    /\ meeting = "Newbury"
    /\ status = "complete"
    /\ Len(Shown({"caption", "metric", "info"})) = 4

\* C6: a finished run whose exception was handled shows exactly one
\* error-styled banner, the one carrying the exception's message.
C6_SingleErrorBanner ==
    (pc = "done" /\ e # "") => Shown({"error"}) = <<OopsElem(e)>>

\* C7: the status container is updated to a terminal state at most once in a
\* run, and exactly once in a finished run of an accepted submission.
C7_OneTerminalState ==
    /\ Len(updates) <= 1
    /\ (pc = "done" /\ Accepted) => Len(updates) = 1

\* C8: in a run started by the button with an empty meeting, the client is
\* never configured and no generation call is made; with a credential present
\* the run shows no warning, no error banner and no result element, and the
\* status container is never created.
C8_NoCallWithoutMeeting ==
    (start_btn /\ meeting = "") =>
        /\ configured = <<>>
        /\ model = ""
        /\ calls = <<>>
        /\ api_key # "" =>
              /\ Shown({"warning", "error", "write"} \cup ResultKinds) = <<>>
              /\ status = "none"

C8_Witness ==
    /\ pc = "done"
    /\ start_btn
    /\ api_key # ""
    /\ meeting = ""

\* C9 as stated: when the response is a JSON object whose jockey_alert is
\* present and neither null nor "null", every result element on the page is
\* preceded by the alert banner carrying that value.
C9_AlertBeforeResults ==
    \A o \in Objects :
        (/\ RespondedWith(o)
         /\ HasAlertKey(o)
         /\ o["jockey_alert"] \notin {PyNone, PyStr("null")}) =>
            \A i \in DOMAIN out :
                out[i].kind \in ResultKinds =>
                    \E j \in 1..(i - 1) :
                        out[j] = Elem("error", "",
                                      "JOCKEY ALERT: " \o o["jockey_alert"].s, "")

\* C9 amended: when the response is a JSON object whose jockey_alert is
\* present and neither null, "null" nor the empty string, every result
\* element on the page is preceded by the alert banner carrying that value.
C9_NonEmptyAlertBeforeResults ==
    \A o \in Objects :
        (/\ RespondedWith(o)
         /\ HasAlertKey(o)
         /\ o["jockey_alert"] \notin {PyNone, PyStr("null"), PyStr("")}) =>
            \A i \in DOMAIN out :
                out[i].kind \in ResultKinds =>
                    \E j \in 1..(i - 1) :
                        out[j] = Elem("error", "",
                                      "JOCKEY ALERT: " \o o["jockey_alert"].s, "")

C9_Witness ==
    /\ pc = "done"
    /\ RespondedWith(FullObject)
    /\ Alerts = <<Elem("error", "", "JOCKEY ALERT: J. Smith booked", "")>>
    /\ Len(Shown(ResultKinds)) = 6

\* C10: a run makes at most one generation call, a run in which an exception
\* was raised included, and a finished successful run has made exactly one.
C10_AtMostOneCall ==
    /\ Len(calls) <= 1
    /\ (pc = "done" /\ status = "complete") => Len(calls) = 1
    /\ (pc = "done" /\ status = "error") => Len(calls) = 1

C10_Witness ==
    /\ pc = "done"
    /\ e = DecodeError
    /\ status = "error"
    /\ Len(calls) = 1

====
